---- MODULE Spec2Model ----
(***************************************************************************)
(* Chunking and retrieval pipeline of the legal RAG server.                *)
(*                                                                         *)
(* Text representation.  Every string the chunkers handle has been        *)
(* whitespace-normalised (norm_text / normalize): words separated by       *)
(* single spaces, no leading or trailing space.  Such a string is modelled *)
(* as the sequence of its words; a word is [c, off, n]: n characters of    *)
(* the content c starting at offset off.  The length of a text is the sum  *)
(* of its word lengths plus one space between neighbours, joining two      *)
(* texts with " " is concatenation, and two texts are the same string iff  *)
(* they are the same sequence.                                             *)
(***************************************************************************)
EXTENDS Integers, Sequences, FiniteSets, TLC

VARIABLES
    ckParts,      \* make_chunks_from_text: fragments of the section text (SENT_SPLIT.split output)
    ckOut,        \* make_chunks_from_text: the records returned
    ckPc,         \* make_chunks_from_text: "idle" | "start" | "done"
    lcData,       \* law_chunker.main: the input rows
    lcPos,        \* law_chunker.main: next (row, section) pair of the nested loops
    seen_hash,    \* law_chunker.main: hashes written so far
    lcOut,        \* law_chunker.main: records written to OUT_PATH, in order
    deduped,      \* law_chunker.main: duplicate counter
    dropped_empty,\* law_chunker.main: sections whose text normalises to ""
    lcPc,         \* law_chunker.main: "idle" | "run" | "done"
    ctcSents,     \* clean_to_chunks_v2.main: the sentences of one (case_uid, section_name) group
    ctcOut,       \* clean_to_chunks_v2.main: the records written for the group
    ctcPc,        \* clean_to_chunks_v2.main: "idle" | "start" | "done"
    rows,         \* build_faiss_index.main: the rows fetch_chunks returned
    builds,       \* build_faiss_index: number of builds started (the generation)
    bldPc,        \* build_faiss_index.main: "idle" | "embedded" | "ids_saved" | "meta_saved"
    fIndex,       \* vectorstore/faiss.index on disk: [gen, data]
    fIds,         \* vectorstore/ids.npy on disk: [gen, data]
    fMeta,        \* vectorstore/meta.jsonl on disk: [gen, data]
    index,        \* rag_server: the loaded index, [gen, data]
    ids,          \* rag_server: the loaded id array, [gen, data]
    meta,         \* rag_server: the loaded metadata rows, [gen, data]
    srvPc,        \* rag_server boot: "off" | "down" | "index_loaded" | "ids_loaded" | "up"
    looked,       \* rag_server: result of the last meta[int(ids[ix])] lookup
    dvCands,      \* diversify_by_case: the ranked candidates passed in
    dvLimit,      \* diversify_by_case: the limit passed in
    dvPicked,     \* diversify_by_case: the list returned
    dvPc,         \* diversify_by_case: "idle" | "start" | "done"
    ppRaw,        \* postprocess_answer: the generated text passed in
    ppPicked,     \* postprocess_answer: the SelectionSet passed in
    ppAns,        \* postprocess_answer: the text returned
    ppPc,         \* postprocess_answer: "idle" | "start" | "done"
    use_reranker, \* rag_server: USE_RERANKER
    rgPc,         \* rag(): position of the request in the handler
    question,     \* rag(): the stripped question
    top_k,        \* rag(): int(body.get("top_k") or TOP_K)
    hits,         \* rag(): what index.search returned, as [s, ix] pairs
    cands,        \* rag(): result of faiss_search
    ranked,       \* rag(): result of rerank_if_enabled
    picked,       \* rag(): result of diversify_by_case
    prompt,       \* rag(): result of build_prompt
    answer,       \* rag(): result of postprocess_answer
    resp,         \* rag(): the responses sent, at most one
    calls,        \* rag(): external calls made so far, in order
    emb_dim,      \* app.py: dimension of the vectors EMB_MODEL returns
    df,           \* app.py: the chunks loaded at startup
    DOC_EMB,      \* app.py: the vectors stored by the startup loop
    apPc,         \* app.py: "off" | "boot" | "serving"
    apResp,       \* app.py: the responses rag_api sent, at most one
    apCalls,      \* app.py: provider calls rag_api made, in order
    smFile,       \* short_merge: the records of chunks.jsonl, in file order
    smRows,       \* short_merge.main: rows, as load_chunks returned them
    smOut,        \* short_merge.main: the records written to chunks_cleaned.jsonl
    smPc,         \* short_merge.main: "idle" | "start" | "loaded" | "done"
    precedents,   \* precedents_pipeline: the precedents table, one record per row
    fmTodo,       \* fix_meta: the ids of the fetched rows not yet processed
    fixed,        \* fix_meta: the counter of updated rows
    fmPc          \* fix_meta: "idle" | "start" | "loop" | "done"

ckVars == <<ckParts, ckOut, ckPc>>
lcVars == <<lcData, lcPos, seen_hash, lcOut, deduped, dropped_empty, lcPc>>

ctcVars == <<ctcSents, ctcOut, ctcPc>>

bldVars == <<rows, builds, bldPc, fIndex, fIds, fMeta>>
srvVars == <<index, ids, meta, srvPc, looked>>
dvVars == <<dvCands, dvLimit, dvPicked, dvPc>>
ppVars == <<ppRaw, ppPicked, ppAns, ppPc>>
rgVars == <<use_reranker, rgPc, question, top_k, hits, cands, ranked, picked,
            prompt, answer, resp, calls>>
apVars == <<emb_dim, df, DOC_EMB, apPc, apResp, apCalls>>
smVars == <<smFile, smRows, smOut, smPc>>
fmVars == <<precedents, fmTodo, fixed, fmPc>>

vars == <<ckVars, lcVars, ctcVars, bldVars, srvVars, dvVars, ppVars, rgVars, apVars,
          smVars, fmVars>>

\* what an action of one component leaves alone
notCk == <<lcVars, ctcVars, bldVars, srvVars, dvVars, ppVars, rgVars, apVars, smVars, fmVars>>
notLc == <<ckVars, ctcVars, bldVars, srvVars, dvVars, ppVars, rgVars, apVars, smVars, fmVars>>
notCtc == <<ckVars, lcVars, bldVars, srvVars, dvVars, ppVars, rgVars, apVars, smVars, fmVars>>
notBld == <<ckVars, lcVars, ctcVars, srvVars, dvVars, ppVars, rgVars, apVars, smVars, fmVars>>
notSrv == <<ckVars, lcVars, ctcVars, bldVars, dvVars, ppVars, rgVars, apVars, smVars, fmVars>>
notDv == <<ckVars, lcVars, ctcVars, bldVars, srvVars, ppVars, rgVars, apVars, smVars, fmVars>>
notPp == <<ckVars, lcVars, ctcVars, bldVars, srvVars, dvVars, rgVars, apVars, smVars, fmVars>>
notRg == <<ckVars, lcVars, ctcVars, bldVars, dvVars, ppVars, apVars, smVars, fmVars>>
notAp == <<ckVars, lcVars, ctcVars, bldVars, srvVars, dvVars, ppVars, rgVars, smVars, fmVars>>
notSm == <<ckVars, lcVars, ctcVars, bldVars, srvVars, dvVars, ppVars, rgVars, apVars, fmVars>>
notFm == <<ckVars, lcVars, ctcVars, bldVars, srvVars, dvVars, ppVars, rgVars, apVars, smVars>>

(***************************************************************************)
(* Bounds of the model                                                     *)
(***************************************************************************)
MaxParts == 3
MaxRows == 2
MaxSents == 3
MaxBuilds == 2
MaxCands == 3
MaxLimit == 3
MaxRawLen == 3
MaxTopK == 2
MaxChunks == 3
MaxMerge == 3
MaxPrec == 3

(***************************************************************************)
(* Text helpers (Python str operations on normalised text)                 *)
(***************************************************************************)
W(c, n) == [c |-> c, off |-> 0, n |-> n]

RECURSIVE SumN(_)
SumN(t) == IF t = <<>> THEN 0 ELSE Head(t).n + SumN(Tail(t))

\* len(s)
TLen(t) == IF t = <<>> THEN 0 ELSE SumN(t) + Len(t) - 1

\* s[:k].strip()
RECURSIVE TakeChars(_, _)
TakeChars(t, k) ==
    IF t = <<>> \/ k <= 0 THEN <<>>
    ELSE LET w == Head(t) IN
         IF w.n <= k THEN <<w>> \o TakeChars(Tail(t), k - w.n - 1)
         ELSE <<[w EXCEPT !.n = k]>>

\* s[k:].strip()
RECURSIVE DropChars(_, _)
DropChars(t, k) ==
    IF t = <<>> THEN <<>>
    ELSE IF k <= 0 THEN t
    ELSE LET w == Head(t) IN
         IF w.n <= k THEN DropChars(Tail(t), k - w.n - 1)
         ELSE <<[w EXCEPT !.off = w.off + k, !.n = w.n - k]>> \o Tail(t)

\* s[:k].rfind(" "): the last space strictly before position k, -1 if none
RFindSpace(t, k) ==
    LET sp == {TLen(SubSeq(t, 1, j)) : j \in 1..(Len(t) - 1)}
        ok == {p \in sp : p < k}
    IN IF ok = {} THEN -1 ELSE CHOOSE p \in ok : \A q \in ok : q <= p

Max(a, b) == IF a >= b THEN a ELSE b
Min(a, b) == IF a <= b THEN a ELSE b

(***************************************************************************)
(* law_chunker.py                                                          *)
(***************************************************************************)
MIN_CHARS == 350
SOFT_MAX == 1200
HARD_MAX == 1600
SENT_MIN == 60
TAIL_MIN == 200

\* the size policy of make_chunks_from_text as one record
Policy == [min |-> MIN_CHARS, soft |-> SOFT_MAX, hard |-> HARD_MAX, tail |-> TAIL_MIN]

\* every fragment returned as a sentence of its own
no_merge(parts, buf, merged) == parts

\* split_sentences, lines 48-61: merge fragments while the buffer is short
RECURSIVE merge_parts(_, _, _)
merge_parts(parts, buf, merged) ==
    IF parts = <<>> THEN (IF buf # <<>> THEN Append(merged, buf) ELSE merged)
    ELSE LET p == Head(parts) IN
         IF buf = <<>> THEN merge_parts(Tail(parts), p, merged)
         ELSE IF TLen(buf) < SENT_MIN THEN merge_parts(Tail(parts), buf \o p, merged)
         ELSE merge_parts(Tail(parts), p, Append(merged, buf))

split_sentences(parts) == merge_parts(parts, <<>>, <<>>)

\* flush(): append the stripped buffer when it is non-empty
flush(chunks, cur) == IF cur # <<>> THEN Append(chunks, cur) ELSE chunks

\* lines 85-91: hard cut of an over-long sentence; <<pieces, remainder>>
RECURSIVE hard_cut(_, _, _)
hard_cut(tmp, pieces, P) ==
    IF TLen(tmp) > P.hard
    THEN LET r   == RFindSpace(tmp, P.hard)
             idx == IF r < P.min THEN P.hard ELSE r
         IN hard_cut(DropChars(tmp, idx), Append(pieces, TakeChars(tmp, idx)), P)
    ELSE <<pieces, tmp>>

\* lines 81-116: the sentence loop and the final flush
RECURSIVE chunk_loop(_, _, _, _)
chunk_loop(sents, chunks, cur, P) ==
    IF sents = <<>> THEN flush(chunks, cur)
    ELSE LET st == Head(sents)
             rest == Tail(sents)
         IN
         IF TLen(st) > P.hard
         THEN LET hc  == hard_cut(st, <<>>, P)
                  ch2 == chunks \o hc[1]
                  tmp == hc[2]
              IN IF tmp # <<>>
                 THEN IF TLen(cur) + 1 + TLen(tmp) <= P.soft
                      THEN chunk_loop(rest, ch2, cur \o tmp, P)
                      ELSE chunk_loop(rest, flush(ch2, cur), tmp, P)
                 ELSE chunk_loop(rest, ch2, cur, P)
         ELSE IF cur = <<>> THEN chunk_loop(rest, chunks, st, P)
         ELSE IF TLen(cur) + 1 + TLen(st) <= P.soft
              THEN chunk_loop(rest, chunks, cur \o st, P)
         ELSE IF TLen(cur) < P.min
              THEN LET cur2 == cur \o st IN
                   IF TLen(cur2) > P.soft
                   THEN chunk_loop(rest, flush(chunks, cur2), st, P)
                   ELSE chunk_loop(rest, chunks, cur2, P)
         ELSE chunk_loop(rest, flush(chunks, cur), st, P)

\* a post-pass that merges the last chunk whatever its length
merge_any_tail(chunks, P) ==
    LET n == Len(chunks) IN
    IF n >= 2
    THEN Append(SubSeq(chunks, 1, n - 2), chunks[n - 1] \o chunks[n])
    ELSE chunks

\* lines 118-121: merge a short last chunk into the previous one
post_pass(chunks, P) ==
    LET n == Len(chunks) IN
    IF n >= 2 /\ TLen(chunks[n]) < P.tail
    THEN Append(SubSeq(chunks, 1, n - 2), chunks[n - 1] \o chunks[n])
    ELSE chunks

\* records numbered on from the records of the run before
chunk_records_resuming(section, chunks) ==
    [i \in 1..Len(chunks) |->
        [section |-> section, chunk_index |-> Len(ckOut) + i - 1,
         text |-> chunks[i], chars |-> TLen(chunks[i])]]

\* lines 123-134: one record per chunk, chunk_index from 0
chunk_records(section, chunks) ==
    [i \in 1..Len(chunks) |->
        [section |-> section, chunk_index |-> i - 1,
         text |-> chunks[i], chars |-> TLen(chunks[i])]]

chunk_texts(sents, P) == post_pass(chunk_loop(sents, <<>>, <<>>, P), P)

make_chunks_from_text(section, parts) ==
    chunk_records(section, chunk_texts(split_sentences(parts), Policy))

(***************************************************************************)
(* Inputs of the law_chunker model: fragments of a normalised section text *)
(***************************************************************************)
PartShapes ==
    { <<W("p", 1)>>,                     \* a punctuation mark captured by SENT_SPLIT
      <<W("a", 100)>>,                   \* a short sentence
      <<W("b", 400)>>,
      <<W("c", 1150)>>,
      <<W("d", 1600)>>,                  \* exactly HARD_MAX
      <<W("e", 1700)>>,                  \* a space-free run longer than HARD_MAX
      <<W("f", 800), W("c", 1150)>>,     \* over-long, with a space after MIN_CHARS
      <<W("h", 300), W("i", 1400)>> }    \* over-long, its only space before MIN_CHARS

SeqsUpTo(S, n) == UNION {[1..k -> S] : k \in 0..n}

CkIdle == ckParts = <<>> /\ ckOut = <<>> /\ ckPc = "idle"

CkInit ==
    /\ ckParts \in SeqsUpTo(PartShapes, MaxParts)
    /\ ckOut = <<>>
    /\ ckPc = "start"

CkMakeChunks ==
    /\ ckPc = "start"
    /\ ckOut' = make_chunks_from_text("sec", ckParts)
    /\ ckPc' = "done"
    /\ UNCHANGED <<ckParts, notCk>>

\* the size policy scaled down to MIN_CHARS=10, SOFT_MAX=20, HARD_MAX=30 and a
\* short-tail threshold of 5 in place of the 200 of line 119
ScaledPolicy == [min |-> 10, soft |-> 20, hard |-> 30, tail |-> 5]

ShortOne == <<W("Short", 5), W("one.", 4)>>
BitLonger == <<W("This", 4), W("sentence", 8), W("is", 2), W("a", 1), W("bit", 3),
               W("longer.", 7)>>
Tiny == <<W("Tiny.", 5)>>
\* a 31-character sentence, one character over the scaled HARD_MAX
OverLong == <<W("An", 2), W("overlong", 8), W("sentence", 8), W("of", 2), W("words.", 6)>>
ScaledSentences == {ShortOne, BitLonger, Tiny, OverLong}

\* sents (line 72) as split_sentences returned them
ScaledInit ==
    /\ ckParts \in SeqsUpTo(ScaledSentences, MaxParts)
    /\ ckOut = <<>>
    /\ ckPc = "sents"

\* lines 81-134 under the scaled policy
CkChunkScaled ==
    /\ ckPc = "sents"
    /\ ckOut' = chunk_records("sec", chunk_texts(ckParts, ScaledPolicy))
    /\ ckPc' = "done"
    /\ UNCHANGED <<ckParts, notCk>>

\* the function called once more on the text it has already chunked
CkMakeChunksAgain ==
    /\ ckPc = "done"
    /\ ckOut' = make_chunks_from_text("sec", ckParts)
    /\ ckPc' = "again"
    /\ UNCHANGED <<ckParts, notCk>>

(***************************************************************************)
(* law_chunker.main: chunk every section of every row, drop repeated text  *)
(***************************************************************************)
\* the sections of SECTION_ORDER the model rows carry, romanised: the first
\* (pangyeol-yoji, the holding summary) and the fifth (jeonmun, the full text)
Sections == <<"pangyeol_yoji", "jeonmun">>

\* section texts: None (key absent), "blank" (whitespace only), or fragments
DocTexts ==
    { << <<W("b", 400)>> >>,
      << <<W("c", 1150)>>, <<W("b", 400)>>, <<W("d", 1600)>> >>,
      << <<W("c", 1150)>>, <<W("c", 1150)>>, <<W("b", 400)>> >> }

Docs == {[kind |-> "None", parts |-> <<>>], [kind |-> "blank", parts |-> <<>>]}
        \cup {[kind |-> "text", parts |-> t] : t \in DocTexts}

\* sha1 of a chunk text: equal exactly for equal texts
sha1(text) == <<"sha1", text>>

\* lines 181-192: write the chunks of one section whose hash is new
\* a write loop that never records the hashes it has written
dedup_forget(made, uid, seen, out, dups) ==
    [seen |-> seen,
     out |-> out \o [i \in 1..Len(made) |->
                [uid |-> uid, section |-> made[i].section,
                 chunk_index |-> made[i].chunk_index, text |-> made[i].text,
                 chars |-> made[i].chars, sha1 |-> sha1(made[i].text)]],
     dups |-> dups]

RECURSIVE dedup_write(_, _, _, _, _)
dedup_write(made, uid, seen, out, dups) ==
    IF made = <<>> THEN [seen |-> seen, out |-> out, dups |-> dups]
    ELSE LET item == Head(made)
             h == sha1(item.text)
         IN IF h \in seen
            THEN dedup_write(Tail(made), uid, seen, out, dups + 1)
            ELSE dedup_write(Tail(made), uid, seen \cup {h},
                     Append(out, [uid |-> uid, section |-> item.section,
                                  chunk_index |-> item.chunk_index,
                                  text |-> item.text, chars |-> item.chars,
                                  sha1 |-> h]),
                     dups)

NSec == Len(Sections)
RowOf(pos) == ((pos - 1) \div NSec) + 1
SecOf(pos) == ((pos - 1) % NSec) + 1
RawAt(pos) == lcData[RowOf(pos)][SecOf(pos)]

LcIdle ==
    /\ lcData = <<>> /\ lcPos = 1 /\ seen_hash = {} /\ lcOut = <<>>
    /\ deduped = 0 /\ dropped_empty = 0 /\ lcPc = "idle"

LcInit ==
    /\ lcData \in SeqsUpTo([1..NSec -> Docs], MaxRows)
    /\ lcPos = 1 /\ seen_hash = {} /\ lcOut = <<>>
    /\ deduped = 0 /\ dropped_empty = 0 /\ lcPc = "run"

\* line 170: the row has no such section
LcSkipAbsent ==
    /\ lcPc = "run" /\ lcPos <= Len(lcData) * NSec
    /\ RawAt(lcPos).kind = "None"
    /\ lcPos' = lcPos + 1
    /\ UNCHANGED <<lcData, seen_hash, lcOut, deduped, dropped_empty, lcPc, notLc>>

\* lines 172-175: the section text normalises to the empty string
LcDropEmpty ==
    /\ lcPc = "run" /\ lcPos <= Len(lcData) * NSec
    /\ RawAt(lcPos).kind = "blank"
    /\ dropped_empty' = dropped_empty + 1
    /\ lcPos' = lcPos + 1
    /\ UNCHANGED <<lcData, seen_hash, lcOut, deduped, lcPc, notLc>>

\* lines 178-192: chunk the section and write the chunks not seen before
LcSection ==
    /\ lcPc = "run" /\ lcPos <= Len(lcData) * NSec
    /\ RawAt(lcPos).kind = "text"
    /\ LET made == make_chunks_from_text(Sections[SecOf(lcPos)], RawAt(lcPos).parts)
           r == dedup_write(made, RowOf(lcPos), seen_hash, lcOut, deduped)
       IN /\ seen_hash' = r.seen
          /\ lcOut' = r.out
          /\ deduped' = r.dups
    /\ lcPos' = lcPos + 1
    /\ UNCHANGED <<lcData, dropped_empty, lcPc, notLc>>

\* lines 194-212: all rows done, the statistics are written
LcFinish ==
    /\ lcPc = "run" /\ lcPos > Len(lcData) * NSec
    /\ lcPc' = "done"
    /\ UNCHANGED <<lcData, lcPos, seen_hash, lcOut, deduped, dropped_empty, notLc>>

(***************************************************************************)
(* data/raw/clean_to_chunks_v2.py                                          *)
(***************************************************************************)
max_chars == 900
min_chars == 500
hard_max == 1200

\* flush() of chunk_by_length on the state [chunks, buf, buf_len]
ctc_flush(st) ==
    IF st.buf # <<>>
    THEN [chunks |-> Append(st.chunks, st.buf), buf |-> <<>>, buf_len |-> 0]
    ELSE st

\* lines 95-101 and 105-110: a completed piece cur of an over-long sentence
ctc_emit_piece(st, cur, cur_len) ==
    IF cur = <<>> THEN st
    ELSE LET s1 == IF st.buf_len # 0 /\ st.buf_len + cur_len > max_chars
                   THEN ctc_flush(st) ELSE st
         IN ctc_flush([s1 EXCEPT !.buf = s1.buf \o cur, !.buf_len = s1.buf_len + cur_len])

\* lines 92-110: the word loop over a sentence longer than hard_max
RECURSIVE ctc_words(_, _, _, _)
ctc_words(words, st, cur, cur_len) ==
    IF words = <<>> THEN ctc_emit_piece(st, cur, cur_len)
    ELSE LET w == Head(words) IN
         IF cur_len + w.n + 1 > hard_max
         THEN ctc_words(Tail(words), ctc_emit_piece(st, cur, cur_len), <<w>>, w.n + 1)
         ELSE ctc_words(Tail(words), st, Append(cur, w), cur_len + w.n + 1)

\* lines 83-128: the sentence loop and the final flush
RECURSIVE ctc_loop(_, _)
ctc_loop(sentences, st) ==
    IF sentences = <<>> THEN ctc_flush(st).chunks
    ELSE LET s == Head(sentences)
             rest == Tail(sentences)
         IN
         IF s = <<>> THEN ctc_loop(rest, st)
         ELSE IF TLen(s) > hard_max THEN ctc_loop(rest, ctc_words(s, st, <<>>, 0))
         ELSE IF st.buf_len + TLen(s) + 1 <= max_chars
              THEN ctc_loop(rest, [st EXCEPT !.buf = st.buf \o s,
                                             !.buf_len = st.buf_len + TLen(s) + 1])
         ELSE IF st.buf_len < min_chars
              THEN ctc_loop(rest, ctc_flush([st EXCEPT !.buf = st.buf \o s,
                                                       !.buf_len = st.buf_len + TLen(s) + 1]))
         ELSE LET s1 == ctc_flush(st) IN
              ctc_loop(rest, [s1 EXCEPT !.buf = s, !.buf_len = TLen(s) + 1])

\* chunk_by_length with the default max_chars, min_chars, hard_max; the
\* chunks are already normalised, so none is empty and normalize keeps them
chunk_by_length(sentences) ==
    ctc_loop(sentences, [chunks |-> <<>>, buf |-> <<>>, buf_len |-> 0])

\* main, lines 177-187: one record per chunk of the group
ctc_records(uid, sec, chunks) ==
    [i \in 1..Len(chunks) |->
        [case_uid |-> uid, section_name |-> sec, chunk_index |-> i - 1,
         text |-> chunks[i], char_len |-> TLen(chunks[i]),
         hash |-> <<"sha1", uid, sec, i - 1, TLen(chunks[i])>>]]

\* sentences as split_sentences returns them for a normalised section text
SentShapes ==
    { <<W("a", 100)>>,
      <<W("b", 450)>>,
      <<W("c", 850)>>,
      <<W("d", 1200)>>,                  \* exactly hard_max
      <<W("e", 1300)>>,                  \* a space-free run longer than hard_max
      <<W("f", 700), W("g", 700)>>,      \* longer than hard_max, splits at the space
      <<W("h", 350), W("i", 400), W("j", 500)>> }

CtcIdle == ctcSents = <<>> /\ ctcOut = <<>> /\ ctcPc = "idle"

CtcInit ==
    /\ ctcSents \in SeqsUpTo(SentShapes, MaxSents)
    /\ ctcOut = <<>>
    /\ ctcPc = "start"

\* main, lines 171-187, for one group
CtcChunkGroup ==
    /\ ctcPc = "start"
    /\ ctcOut' = ctc_records("uid", "sec", chunk_by_length(ctcSents))
    /\ ctcPc' = "done"
    /\ UNCHANGED <<ctcSents, notCtc>>

\* the script run once more on the same group
CtcChunkGroupAgain ==
    /\ ctcPc = "done"
    /\ ctcOut' = ctc_records("uid", "sec", chunk_by_length(ctcSents))
    /\ ctcPc' = "again"
    /\ UNCHANGED <<ctcSents, notCtc>>

(***************************************************************************)
(* build_faiss_index.py: the offline index build                           *)
(***************************************************************************)
MIN_TEXT_LEN == 20

\* a row of precedent_chunks joined with precedents.case_no; id is the
\* AUTO_INCREMENT key the INSERT of precedents_pipeline.replace_chunks leaves
\* to the database, so it is >= 1
DbRow(id, pid, ci, case_no, len) ==
    [id |-> id, precedent_id |-> pid, section_name |-> "jeonmun",
     chunk_index |-> ci, case_no |-> case_no, text_len |-> len]

\* contents of the precedent_chunks table a build may find
Tables ==
    { {DbRow(1, 1, 0, "A", 400)},
      {DbRow(1, 1, 0, "A", 400), DbRow(2, 1, 1, "A", 900)},
      {DbRow(1, 2, 0, "B", 400), DbRow(2, 1, 0, "A", 400), DbRow(3, 1, 1, "A", 15)},
      {DbRow(2, 1, 0, "A", 400), DbRow(3, 1, 1, "A", 500), DbRow(4, 2, 0, "B", 600)} }

\* ORDER BY pc.precedent_id, pc.section_name, pc.chunk_index (the rows of a
\* table carry one section_name, which leaves the two numeric keys)
RowBefore(a, b) ==
    \/ a.precedent_id < b.precedent_id
    \/ a.precedent_id = b.precedent_id /\ a.chunk_index <= b.chunk_index

RECURSIVE order_by(_)
order_by(S) ==
    IF S = {} THEN <<>>
    ELSE LET m == CHOOSE r \in S : \A q \in S : RowBefore(r, q)
         IN <<m>> \o order_by(S \ {m})

\* fetch_chunks: WHERE LENGTH(pc.text) > 20, ordered
fetch_chunks(table) == order_by({r \in table : r.text_len > MIN_TEXT_LEN})

\* line 75: ids = np.array([r["id"] for r in rows])
build_ids(rs) == [i \in 1..Len(rs) |-> rs[i].id]

\* lines 77-85: one metadata record per row, in row order
build_meta(rs) ==
    [i \in 1..Len(rs) |->
        [id |-> rs[i].id, precedent_id |-> rs[i].precedent_id, case_no |-> rs[i].case_no,
         section_name |-> rs[i].section_name, chunk_index |-> rs[i].chunk_index]]

\* lines 65-71 and 88-89: row i of the index is the embedding of rows[i].text
build_index(rs) == [i \in 1..Len(rs) |-> [emb_of |-> rs[i].id]]

Artifact(gen, data) == [gen |-> gen, data |-> data]

NoFile == Artifact(0, <<>>)

BldIdle ==
    /\ rows = <<>> /\ builds = 0 /\ bldPc = "off"
    /\ fIndex = NoFile /\ fIds = NoFile /\ fMeta = NoFile

\* the vectorstore holds the artifacts of a first, completed build
BldInit ==
    /\ \E t \in Tables :
          /\ rows = fetch_chunks(t)
          /\ fIndex = Artifact(1, build_index(rows))
          /\ fIds = Artifact(1, build_ids(rows))
          /\ fMeta = Artifact(1, build_meta(rows))
    /\ builds = 1
    /\ bldPc = "idle"

\* main, lines 55-71: read the table and embed the texts
BuildFetchEmbed ==
    /\ bldPc = "idle" /\ builds < MaxBuilds
    /\ \E t \in Tables : rows' = fetch_chunks(t)
    /\ builds' = builds + 1
    /\ bldPc' = "embedded"
    /\ UNCHANGED <<fIndex, fIds, fMeta, notBld>>

\* line 76: np.save(ID_PATH, ids)
BuildSaveIds ==
    /\ bldPc = "embedded"
    /\ fIds' = Artifact(builds, build_ids(rows))
    /\ bldPc' = "ids_saved"
    /\ UNCHANGED <<rows, builds, fIndex, fMeta, notBld>>

\* lines 77-85: META_PATH is rewritten
BuildSaveMeta ==
    /\ bldPc = "ids_saved"
    /\ fMeta' = Artifact(builds, build_meta(rows))
    /\ bldPc' = "meta_saved"
    /\ UNCHANGED <<rows, builds, fIndex, fIds, notBld>>

\* lines 88-90: faiss.write_index(index, INDEX_PATH)
BuildSaveIndex ==
    /\ bldPc = "meta_saved"
    /\ fIndex' = Artifact(builds, build_index(rows))
    /\ bldPc' = "idle"
    /\ UNCHANGED <<rows, builds, fIds, fMeta, notBld>>

(***************************************************************************)
(* rag_server.py: boot and metadata lookup                                 *)
(***************************************************************************)
IndexError == [error |-> "IndexError"]

\* faiss_search, line 104: m = meta[int(ids[ix])], ix counted from 0
meta_lookup(metaRows, idArr, ix) ==
    IF ix + 1 > Len(idArr) THEN IndexError
    ELSE LET k == idArr[ix + 1] IN
         IF k >= 0 /\ k < Len(metaRows) THEN metaRows[k + 1]
         ELSE IF k < 0 /\ -k <= Len(metaRows) THEN metaRows[Len(metaRows) + k + 1]
         ELSE IndexError

SrvIdle ==
    /\ index = NoFile /\ ids = NoFile /\ meta = NoFile
    /\ srvPc = "off" /\ looked = <<>>

SrvInit ==
    /\ index = NoFile /\ ids = NoFile /\ meta = NoFile
    /\ srvPc = "down" /\ looked = <<>>

\* line 64: index = faiss.read_index(INDEX_PATH)
SrvLoadIndex ==
    /\ srvPc = "down"
    /\ index' = fIndex
    /\ srvPc' = "index_loaded"
    /\ UNCHANGED <<ids, meta, looked, notSrv>>

\* line 65: ids = np.load(IDS_PATH)
SrvLoadIds ==
    /\ srvPc = "index_loaded"
    /\ ids' = fIds
    /\ srvPc' = "ids_loaded"
    /\ UNCHANGED <<index, meta, looked, notSrv>>

\* line 66: meta = load_meta(META_PATH)
SrvLoadMeta ==
    /\ srvPc = "ids_loaded"
    /\ meta' = fMeta
    /\ srvPc' = "up"
    /\ UNCHANGED <<index, ids, looked, notSrv>>

\* faiss_search, lines 101-104, for one hit ix of the loaded index
SrvLookup ==
    /\ srvPc = "up"
    /\ \E ix \in 0..(Len(index.data) - 1) :
          looked' = <<[ix |-> ix, m |-> meta_lookup(meta.data, ids.data, ix)]>>
    /\ UNCHANGED <<index, ids, meta, srvPc, notSrv>>

(***************************************************************************)
(* rag_server.py: the retrieval funnel.  Similarity scores are hundredths, *)
(* section weights tenths, weighted scores their product.                  *)
(***************************************************************************)
TOP_N_CANDIDATES == 30
TOP_K == 5
MIN_RERANK_POOL == 10
WEIGHT_IYU == 20
WEIGHT_PANSI == 15
WEIGHT_YOJI == 12
WEIGHT_JUMUN == 8
WEIGHT_DEFAULT == 10

\* PREFERRED_SECTIONS.get(sec, 1.0); the section names are romanised:
\* iyu (reasoning), pansi_sahang (holding), yoji (summary), jumun (order)
weight(sec) ==
    CASE sec = "iyu" -> WEIGHT_IYU
      [] sec = "pansi_sahang" -> WEIGHT_PANSI
      [] sec = "yoji" -> WEIGHT_YOJI
      [] sec = "jumun" -> WEIGHT_JUMUN
      [] OTHER -> WEIGHT_DEFAULT

\* dict.get(key): "None" stands for a missing key or a null value
get(m, key) == IF key \in DOMAIN m THEN m[key] ELSE "None"

\* str.strip() on the texts the model uses
strip(x) ==
    CASE x = " " -> ""
      [] x = " q " -> "q"
      [] x = " t1 " -> "t1"
      [] x = " iyu" -> "iyu"
      [] OTHER -> x

\* x or "": null and the empty string are both falsy
or_empty(x) == IF x = "None" THEN "" ELSE x

\* line 106: (m.get("section_name") or "").strip()
section_of(m) == strip(or_empty(get(m, "section_name")))

\* _pick_text_field: the stores carry the text, if at all, under "text"
pick_text_field(m) == or_empty(get(m, "text"))

\* an insertion that puts a value before the values equal to it
RECURSIVE ins_before_equal(_, _)
ins_before_equal(sorted, x) ==
    IF sorted = <<>> THEN <<x>>
    ELSE IF Head(sorted)[1] > x[1] THEN <<Head(sorted)>> \o ins_before_equal(Tail(sorted), x)
    ELSE <<x>> \o sorted

\* list.sort(key=..., reverse=True) on <<key, value>> pairs: stable, descending
RECURSIVE ins_desc(_, _)
ins_desc(sorted, x) ==
    IF sorted = <<>> THEN <<x>>
    ELSE IF Head(sorted)[1] >= x[1] THEN <<Head(sorted)>> \o ins_desc(Tail(sorted), x)
    ELSE <<x>> \o sorted

RECURSIVE sort_pairs(_, _)
sort_pairs(pairs, acc) ==
    IF pairs = <<>> THEN acc ELSE sort_pairs(Tail(pairs), ins_desc(acc, Head(pairs)))

\* a faiss_search without its final sort: the values in arrival order
keep_order(pairs) == [i \in 1..Len(pairs) |-> pairs[i][2]]

sort_desc(pairs) ==
    LET r == sort_pairs(pairs, <<>>) IN [i \in 1..Len(r) |-> r[i][2]]

\* what a list-valued function yields when the IndexError leaves it
Raised == <<IndexError>>

\* lines 101-112: one candidate per hit with ix >= 0, in hit order
RECURSIVE collect_hits(_, _, _, _)
collect_hits(hs, metaRows, idArr, out) ==
    IF hs = <<>> THEN out
    ELSE LET h == Head(hs) IN
         IF h.ix < 0 THEN collect_hits(Tail(hs), metaRows, idArr, out)
         ELSE LET m == meta_lookup(metaRows, idArr, h.ix) IN
              IF m = IndexError THEN Raised
              ELSE collect_hits(Tail(hs), metaRows, idArr,
                       Append(out, [text |-> pick_text_field(m)] @@ m
                                   @@ [score |-> h.s * weight(section_of(m))]))

\* faiss_search after index.search returned hits; IndexError when line 104 raises
\* (out is bound to the collected list, which is computed once)
faiss_search(hs, metaRows, idArr) ==
    CHOOSE r \in { IF out = Raised THEN Raised
                   ELSE sort_desc([i \in 1..Len(out) |-> <<out[i].score, out[i]>>]) :
                   out \in {collect_hits(hs, metaRows, idArr, <<>>)} } : TRUE

\* a slice that cuts nothing off
whole_list(seq, k) == seq

\* seq[:k], k negative counting from the end as Python slices do
Prefix(seq, k) ==
    IF k >= 0 THEN SubSeq(seq, 1, Min(k, Len(seq)))
    ELSE SubSeq(seq, 1, Max(Len(seq) + k, 0))

\* line 126: {"rerank_score": float(sc), **c}
with_rerank(c, sc) == c @@ [rerank_score |-> sc]

\* rerank_if_enabled; scores[i] is what reranker.compute_score returns for
\* the i-th candidate that has text
rerank_if_enabled(enabled, candidates, k, scores) ==
    LET clean == SelectSeq(candidates, LAMBDA c : or_empty(get(c, "text")) # "") IN
    IF ~enabled \/ clean = <<>> THEN Prefix(candidates, k)
    ELSE Prefix(sort_desc([i \in 1..Len(clean) |->
                    <<scores[i], with_rerank(clean[i], scores[i])>>]), k)

\* "not case_no": the key is missing, null or the empty string
no_case(c) == or_empty(get(c, "case_no")) = ""

\* a selection loop that forgets which cases it has seen
div_no_seen(cs, seen, pk, limit) ==
    Prefix(pk \o SelectSeq(cs, LAMBDA c : ~no_case(c)), Max(limit, 1))

\* diversify_by_case
RECURSIVE div_loop(_, _, _, _)
div_loop(cs, seen, pk, limit) ==
    IF cs = <<>> THEN pk
    ELSE LET c == Head(cs) IN
         IF no_case(c) \/ c.case_no \in seen THEN div_loop(Tail(cs), seen, pk, limit)
         ELSE IF Len(pk) + 1 >= limit THEN Append(pk, c)
         ELSE div_loop(Tail(cs), seen \cup {c.case_no}, Append(pk, c), limit)

diversify_by_case(cs, limit) == div_loop(cs, {}, <<>>, limit)

(***************************************************************************)
(* rag_server.postprocess_answer.  A generated text is a sequence of       *)
(* tokens: "a" a plain character, "sp" a blank, "nl" a newline, "#" a hash *)
(* sign, "lbl" a leaked label (sageon-beonho ":" value, no blank inside),  *)
(* "ref" a reference line "(chamgo: id1, id2)" with its ids, "rest" what   *)
(* is left of a reference line whose opening the label pattern consumed.   *)
(***************************************************************************)
Tok(k) == [k |-> k, ids |-> <<>>]
Ref(l) == [k |-> "ref", ids |-> l]
IsWs(t) == t.k \in {"sp", "nl"}

RECURSIVE SkipWs(_, _)
SkipWs(a, i) == IF i <= Len(a) /\ IsWs(a[i]) THEN SkipWs(a, i + 1) ELSE i

RECURSIVE CountHash(_, _, _)
CountHash(a, i, n) ==
    IF n < 6 /\ i <= Len(a) /\ a[i].k = "#" THEN CountHash(a, i + 1, n + 1) ELSE n

\* line 206: re.sub(r'^\s*#{1,6}\s*', '', ans, flags=re.MULTILINE)
RECURSIVE strip_headings(_, _)
strip_headings(a, i) ==
    IF i > Len(a) THEN <<>>
    ELSE LET atStart == i = 1 \/ a[i - 1].k = "nl"
             j == SkipWs(a, i)
             h == CountHash(a, j, 0)
         IN IF atStart /\ h >= 1 THEN strip_headings(a, SkipWs(a, j + h))
            ELSE <<a[i]>> \o strip_headings(a, i + 1)

\* line 208: the label pattern ends in a greedy \S+, which also takes the
\* non-blank text that follows the label
RECURSIVE strip_labels(_, _)
strip_labels(a, inLabel) ==
    IF a = <<>> THEN <<>>
    ELSE LET t == Head(a) IN
         IF inLabel
         THEN IF IsWs(t) THEN <<t>> \o strip_labels(Tail(a), FALSE)
              ELSE IF t.k = "ref"
                   THEN <<Tok("sp"), [k |-> "rest", ids |-> t.ids]>> \o strip_labels(Tail(a), FALSE)
              ELSE strip_labels(Tail(a), TRUE)
         ELSE IF t.k = "lbl" THEN strip_labels(Tail(a), TRUE)
         ELSE <<t>> \o strip_labels(Tail(a), FALSE)

\* line 210: re.sub(r'\n{3,}', '\n\n', ans)
RECURSIVE collapse_newlines(_)
collapse_newlines(a) ==
    IF a = <<>> THEN <<>>
    ELSE IF Len(a) >= 3 /\ a[1].k = "nl" /\ a[2].k = "nl" /\ a[3].k = "nl"
         THEN collapse_newlines(Tail(a))
    ELSE <<Head(a)>> \o collapse_newlines(Tail(a))

\* str.strip()
RECURSIVE strip_ws(_)
strip_ws(a) ==
    IF a = <<>> THEN <<>>
    ELSE IF IsWs(a[1]) THEN strip_ws(Tail(a))
    ELSE IF IsWs(a[Len(a)]) THEN strip_ws(SubSeq(a, 1, Len(a) - 1))
    ELSE a

\* lines 213-219: the case numbers of picked, unique, in order
RECURSIVE uniq_cases(_, _)
uniq_cases(pk, acc) ==
    IF pk = <<>> THEN acc
    ELSE LET c == Head(pk) IN
         IF no_case(c) \/ \E i \in 1..Len(acc) : acc[i] = c.case_no
         THEN uniq_cases(Tail(pk), acc)
         ELSE uniq_cases(Tail(pk), Append(acc, c.case_no))

\* "tail not in ans": the reference line occurs somewhere in the text
contains_tail(a, cases) == \E i \in 1..Len(a) : a[i] = Ref(cases)

\* lines 220-223
append_tail(a, cases) ==
    IF cases # <<>> /\ ~contains_tail(a, cases)
    THEN a \o <<Tok("nl"), Ref(cases)>>
    ELSE a

postprocess_answer(ans, pk) ==
    LET a1 == strip_headings(ans, 1)
        a2 == strip_labels(a1, FALSE)
        a3 == strip_ws(collapse_newlines(a2))
    IN append_tail(a3, uniq_cases(pk, <<>>))

(***************************************************************************)
(* Inputs of the funnel functions                                          *)
(***************************************************************************)
\* a candidate as faiss_search builds it
Cand(id, case_no, sec, text, score) ==
    [score |-> score, id |-> id, case_no |-> case_no, section_name |-> sec,
     chunk_index |-> 0, text |-> text]

\* ranked candidates: two chunks of case A, one of B, one of C, one whose
\* case_no is empty and one whose case_no is missing
CandPool ==
    { Cand(1, "A", "iyu", "t1", 900), Cand(2, "A", "jumun", "t2", 720),
      Cand(3, "B", "iyu", "t3", 720), Cand(4, "C", "yoji", "t4", 600),
      Cand(5, "", "jumun", "t5", 400), Cand(6, "None", "jumun", "t6", 400) }

DvIdle == dvCands = <<>> /\ dvLimit = 0 /\ dvPicked = <<>> /\ dvPc = "idle"

DvInit ==
    /\ dvCands \in SeqsUpTo(CandPool, MaxCands)
    /\ dvLimit \in (-1)..MaxLimit
    /\ dvPicked = <<>>
    /\ dvPc = "start"

DvDiversify ==
    /\ dvPc = "start"
    /\ dvPicked' = diversify_by_case(dvCands, dvLimit)
    /\ dvPc' = "done"
    /\ UNCHANGED <<dvCands, dvLimit, notDv>>

\* generated texts, and the SelectionSets diversify_by_case can return
RawTokens ==
    { Tok("a"), Tok("sp"), Tok("nl"), Tok("#"), Tok("lbl"),
      Ref(<<"A">>), Ref(<<"A", "B">>) }

SelectionSets ==
    { <<>>,
      <<Cand(1, "A", "iyu", "t1", 900)>>,
      <<Cand(1, "A", "iyu", "t1", 900), Cand(3, "B", "iyu", "t3", 720)>>,
      <<Cand(3, "B", "iyu", "t3", 720), Cand(2, "A", "jumun", "t2", 720)>> }

PpIdle == ppRaw = <<>> /\ ppPicked = <<>> /\ ppAns = <<>> /\ ppPc = "idle"

PpInit ==
    /\ ppRaw \in SeqsUpTo(RawTokens, MaxRawLen)
    /\ ppPicked \in SelectionSets
    /\ ppAns = <<>>
    /\ ppPc = "start"

PpPostprocess ==
    /\ ppPc = "start"
    /\ ppAns' = postprocess_answer(ppRaw, ppPicked)
    /\ ppPc' = "done"
    /\ UNCHANGED <<ppRaw, ppPicked, notPp>>

(***************************************************************************)
(* rag_server.rag(): one request through the handler                       *)
(***************************************************************************)
\* a record of meta.jsonl that carries its chunk text
MetaRow(id, case_no, sec, text) ==
    [id |-> id, case_no |-> case_no, section_name |-> sec, chunk_index |-> id,
     text |-> text]

\* a record of meta.jsonl without section_name and text
BareRow(id, case_no) == [id |-> id, case_no |-> case_no, chunk_index |-> id]

\* what the server may have loaded; ids positional (0..n-1) except for the
\* store build_faiss_index writes, whose ids are database keys
Stores ==
    { [ids |-> <<0, 1, 2>>,
       meta |-> << MetaRow(0, "A", "jumun", "t0"), MetaRow(1, "A", " iyu", " t1 "),
                   MetaRow(2, "B", "pansi_sahang", "") >>],
      [ids |-> <<0, 1, 2>>,
       meta |-> << MetaRow(0, "B", "yoji", "t0"), MetaRow(1, "", "etc", "t1"),
                   BareRow(2, "A") >>],
      [ids |-> <<0, 1>>,
       meta |-> << MetaRow(0, "A", "iyu", ""), BareRow(1, "B") >>],
      [ids |-> <<>>, meta |-> <<>>],
      [ids |-> build_ids(fetch_chunks({DbRow(1, 1, 0, "A", 400), DbRow(2, 1, 1, "A", 900)})),
       meta |-> build_meta(fetch_chunks({DbRow(1, 1, 0, "A", 400), DbRow(2, 1, 1, "A", 900)}))] }

\* raw similarities in hundredths
ScoreSet == {90, 50, 36}

\* index.search(qvec, top_n) on an index of n < top_n vectors: every vector
\* once, by non-increasing similarity, then the -1 padding
SearchResults(n) ==
    LET orders == { p \in [1..n -> 0..(n - 1)] : \A i, j \in 1..n : i < j => p[i] # p[j] }
        sims == { d \in [1..n -> ScoreSet] : \A i, j \in 1..n : i < j => d[i] >= d[j] }
    IN { Append([i \in 1..n |-> [s |-> d[i], ix |-> p[i]]], [s |-> -100, ix |-> -1]) :
            p \in orders, d \in sims }

RerankScores == {1, 2}

Questions == {"", " ", "q", " q "}

\* what the generation provider answers with, before .strip()
Generated ==
    { <<Tok("a")>>,
      <<Tok("a"), Tok("nl"), Ref(<<"A">>), Tok("nl")>>,
      <<Ref(<<"A", "B">>), Tok("nl"), Tok("a")>> }

ProviderFailures == {"Timeout", "HTTPError"}

\* build_prompt: the question and one "[i] text" entry per selected candidate;
\* the fixed rules and instructions around them (lines 160-184) are the same
\* for every selection and never say that no grounding text was found
build_prompt(q, pk) ==
    [question |-> q,
     no_grounding_stated |-> FALSE,
     context |-> [i \in 1..Len(pk) |-> [n |-> i, text |-> strip(or_empty(get(pk[i], "text")))]]]

\* a sources list built from the selection read backwards
sources_backwards(pk) ==
    [i \in 1..Len(pk) |->
        [case_uid |-> get(pk[Len(pk) + 1 - i], "case_uid"),
         case_no |-> get(pk[Len(pk) + 1 - i], "case_no"),
         section_name |-> get(pk[Len(pk) + 1 - i], "section_name"),
         chunk_index |-> get(pk[Len(pk) + 1 - i], "chunk_index"),
         score |-> pk[Len(pk) + 1 - i].score]]

\* lines 259-266
sources_of(pk) ==
    [i \in 1..Len(pk) |->
        [case_uid |-> get(pk[i], "case_uid"), case_no |-> get(pk[i], "case_no"),
         section_name |-> get(pk[i], "section_name"),
         chunk_index |-> get(pk[i], "chunk_index"), score |-> pk[i].score]]

RgIdle ==
    /\ use_reranker = FALSE /\ rgPc = "off" /\ question = "" /\ top_k = 0
    /\ hits = <<>> /\ cands = <<>> /\ ranked = <<>> /\ picked = <<>>
    /\ prompt = <<>> /\ answer = <<>> /\ resp = <<>> /\ calls = <<>>

\* a booted server waiting for a request
RgInit ==
    /\ use_reranker \in BOOLEAN
    /\ rgPc = "idle" /\ question = "" /\ top_k = 0
    /\ hits = <<>> /\ cands = <<>> /\ ranked = <<>> /\ picked = <<>>
    /\ prompt = <<>> /\ answer = <<>> /\ resp = <<>> /\ calls = <<>>
    /\ \E st \in Stores :
          /\ index = Artifact(1, [i \in 1..Len(st.ids) |-> [emb_of |-> st.ids[i]]])
          /\ ids = Artifact(1, st.ids)
          /\ meta = Artifact(1, st.meta)
    /\ srvPc = "up" /\ looked = <<>>

\* lines 230-235; a body top_k of 0 also stands for an absent or null one
RagReceive ==
    /\ rgPc = "idle"
    /\ \E q \in Questions, k \in (-1)..MaxTopK :
          /\ question' = strip(q)
          /\ top_k' = (IF k = 0 THEN TOP_K ELSE k)
          /\ IF strip(q) = ""
             THEN /\ resp' = <<[status |-> 400, ok |-> FALSE, error |-> "question is required"]>>
                  /\ rgPc' = "responded"
             ELSE /\ resp' = resp
                  /\ rgPc' = "received"
    /\ UNCHANGED <<use_reranker, hits, cands, ranked, picked, prompt, answer, calls,
                   srvVars, notRg>>

\* lines 238-241: encode_query and faiss_search; the IndexError of line 104
\* is not caught and leaves the handler
RagSearch ==
    /\ rgPc = "received"
    /\ \E h \in SearchResults(Len(index.data)) :
          \E out \in {faiss_search(h, meta.data, ids.data)} :
          /\ hits' = h
          /\ IF out = Raised
             THEN /\ cands' = cands
                  /\ resp' = <<[status |-> 500, ok |-> FALSE, error |-> "IndexError"]>>
                  /\ rgPc' = "responded"
             ELSE /\ cands' = out
                  /\ resp' = resp
                  /\ rgPc' = "searched"
    /\ calls' = calls \o <<"embed", "search">>
    /\ UNCHANGED <<use_reranker, question, top_k, ranked, picked, prompt, answer,
                   srvVars, notRg>>

has_text(cs) == \E i \in 1..Len(cs) : or_empty(get(cs[i], "text")) # ""

\* rerank_if_enabled called on its own: candidates with and without text
RerankPool ==
    { Cand(1, "A", "iyu", "t1", 900), Cand(2, "A", "jumun", "t2", 720),
      Cand(3, "B", "iyu", "", 720), Cand(4, "C", "yoji", "t4", 600) }

RkInit ==
    /\ use_reranker \in BOOLEAN
    /\ cands \in SeqsUpTo(RerankPool, MaxCands)
    /\ top_k \in (-1)..MaxLimit
    /\ rgPc = "rerank_in" /\ question = "q"
    /\ hits = <<>> /\ ranked = <<>> /\ picked = <<>>
    /\ prompt = <<>> /\ answer = <<>> /\ resp = <<>> /\ calls = <<>>
    /\ SrvIdle

\* lines 116-130; reranker.compute_score is called at line 124 only
RkRerank ==
    /\ rgPc = "rerank_in"
    /\ \E sc \in [1..Len(cands) -> RerankScores] :
          ranked' = rerank_if_enabled(use_reranker, cands, top_k, sc)
    /\ calls' = (IF use_reranker /\ has_text(cands) THEN Append(calls, "rerank") ELSE calls)
    /\ rgPc' = "rerank_out"
    /\ UNCHANGED <<use_reranker, question, top_k, hits, cands, picked, prompt, answer,
                   resp, srvVars, notRg>>

\* line 244
RagRerank ==
    /\ rgPc = "searched"
    /\ \E sc \in [1..Len(cands) -> RerankScores] :
          ranked' = rerank_if_enabled(use_reranker, cands,
                                      Max(top_k * 2, MIN_RERANK_POOL), sc)
    /\ calls' = (IF use_reranker /\ has_text(cands) THEN Append(calls, "rerank") ELSE calls)
    /\ rgPc' = "ranked"
    /\ UNCHANGED <<use_reranker, question, top_k, hits, cands, picked, prompt, answer,
                   resp, srvVars, notRg>>

\* line 245
RagDiversify ==
    /\ rgPc = "ranked"
    /\ picked' = diversify_by_case(ranked, top_k)
    /\ rgPc' = "picked"
    /\ UNCHANGED <<use_reranker, question, top_k, hits, cands, ranked, prompt, answer,
                   resp, calls, srvVars, notRg>>

\* line 248
RagPrompt ==
    /\ rgPc = "picked"
    /\ prompt' = <<build_prompt(question, picked)>>
    /\ rgPc' = "prompted"
    /\ UNCHANGED <<use_reranker, question, top_k, hits, cands, ranked, picked, answer,
                   resp, calls, srvVars, notRg>>

\* lines 251-253: call_ollama returns and the text is post-processed
RagGenerate ==
    /\ rgPc = "prompted"
    /\ \E g \in Generated : answer' = postprocess_answer(strip_ws(g), picked)
    /\ calls' = Append(calls, "ollama")
    /\ rgPc' = "generated"
    /\ UNCHANGED <<use_reranker, question, top_k, hits, cands, ranked, picked, prompt,
                   resp, srvVars, notRg>>

\* a handler that answers a provider failure by calling the provider again
RagGenerateRetries ==
    /\ rgPc = "prompted" /\ Len(calls) < 6
    /\ calls' = Append(calls, "ollama")
    /\ UNCHANGED <<use_reranker, rgPc, question, top_k, hits, cands, ranked, picked,
                   prompt, answer, resp, srvVars, notRg>>

\* lines 251-255: call_ollama raises (timeout=120 expired, raise_for_status)
RagGenerateFails ==
    /\ rgPc = "prompted"
    /\ \E e \in ProviderFailures :
          resp' = <<[status |-> 500, ok |-> FALSE, error |-> e]>>
    /\ calls' = Append(calls, "ollama")
    /\ rgPc' = "responded"
    /\ UNCHANGED <<use_reranker, question, top_k, hits, cands, ranked, picked, prompt,
                   answer, srvVars, notRg>>

\* lines 257-273
RagRespond ==
    /\ rgPc = "generated"
    /\ resp' = <<[status |-> 200, ok |-> TRUE, answer |-> answer,
                  sources |-> sources_of(picked)]>>
    /\ rgPc' = "responded"
    /\ UNCHANGED <<use_reranker, question, top_k, hits, cands, ranked, picked, prompt,
                   answer, calls, srvVars, notRg>>

(***************************************************************************)
(* app.py: the startup embedding loop and the /rag handler                 *)
(***************************************************************************)
\* line 50: the placeholder is [0.0] * 768
ZERO_DIM == 768

\* dimensions of the models OLLAMA_EMB_MODEL may name: nomic-embed-text
\* (the default) and a 1024-dimensional one
EmbDims == {768, 1024}

Embedding(chunk, dim) == [zero |-> FALSE, of |-> chunk, dim |-> dim]
ZeroVector == [zero |-> TRUE, of |-> 0, dim |-> ZERO_DIM]

ApIdle ==
    /\ emb_dim = 0 /\ df = <<>> /\ DOC_EMB = <<>> /\ apPc = "off"
    /\ apResp = <<>> /\ apCalls = <<>>

\* lines 22-39: chunks.jsonl is read (a missing file leaves df empty);
\* chunk i of the file is named i
ApInit ==
    /\ emb_dim \in EmbDims
    /\ \E n \in 0..MaxChunks : df = [i \in 1..n |-> i]
    /\ DOC_EMB = <<>> /\ apPc = "boot"
    /\ apResp = <<>> /\ apCalls = <<>>

\* lines 43-47: ollama_embed(t)[0] returns for the next chunk
AppEmbedOk ==
    /\ apPc = "boot" /\ Len(DOC_EMB) < Len(df)
    /\ DOC_EMB' = Append(DOC_EMB, Embedding(df[Len(DOC_EMB) + 1], emb_dim))
    /\ UNCHANGED <<emb_dim, df, apPc, apResp, apCalls, notAp>>

\* lines 48-50: ollama_embed raises for the next chunk
AppEmbedFails ==
    /\ apPc = "boot" /\ Len(DOC_EMB) < Len(df)
    /\ DOC_EMB' = Append(DOC_EMB, ZeroVector)
    /\ UNCHANGED <<emb_dim, df, apPc, apResp, apCalls, notAp>>

\* line 51: the loop is over (or was skipped for an empty df)
AppServe ==
    /\ apPc = "boot" /\ Len(DOC_EMB) = Len(df)
    /\ apPc' = "serving"
    /\ UNCHANGED <<emb_dim, df, DOC_EMB, apResp, apCalls, notAp>>

\* np.argsort(-sims)[:top_k]: top_k distinct rows, in some order of similarity
TopRows(n, k) ==
    { ix \in [1..Min(k, n) -> 1..n] : \A i, j \in 1..Min(k, n) : i # j => ix[i] # ix[j] }

\* cosine (lines 56-62): np.array and M @ q need every row to have the
\* dimension of the query vector
cosine_ok(dim, M) == \A i \in 1..Len(M) : M[i].dim = dim

\* rag_api, lines 175-218, for one request
AppRag ==
    /\ apPc = "serving" /\ apResp = <<>>
    /\ \E q \in Questions, k \in (-1)..MaxTopK, embed_ok \in BOOLEAN, gen_ok \in BOOLEAN :
          IF Len(df) = 0 \/ Len(DOC_EMB) = 0
          THEN /\ apResp' = <<[status |-> 400, ok |-> FALSE, error |-> "no data"]>>
               /\ apCalls' = apCalls
          ELSE IF strip(q) = ""
          THEN /\ apResp' = <<[status |-> 400, ok |-> FALSE, error |-> "question required"]>>
               /\ apCalls' = apCalls
          ELSE IF k <= 0
          THEN /\ apResp' = <<[status |-> 400, ok |-> FALSE, error |-> "top_k must be > 0"]>>
               /\ apCalls' = apCalls
          ELSE IF ~embed_ok
          THEN /\ apResp' = <<[status |-> 500, ok |-> FALSE, error |-> "embed"]>>
               /\ apCalls' = <<"embed">>
          ELSE IF ~cosine_ok(emb_dim, DOC_EMB)
          THEN /\ apResp' = <<[status |-> 500, ok |-> FALSE, error |-> "ValueError"]>>
               /\ apCalls' = <<"embed">>
          ELSE IF ~gen_ok
          THEN /\ apResp' = <<[status |-> 500, ok |-> FALSE, error |-> "generate"]>>
               /\ apCalls' = <<"embed", "generate">>
          ELSE /\ \E ix \in TopRows(Len(df), k) :
                     apResp' = <<[status |-> 200, ok |-> TRUE, top_k |-> k,
                                  sources |-> [i \in 1..Len(ix) |-> df[ix[i]]]]>>
               /\ apCalls' = <<"embed", "generate">>
    /\ UNCHANGED <<emb_dim, df, DOC_EMB, apPc, notAp>>

(***************************************************************************)
(* short_merge.py: chunks.jsonl is cleaned, and chunks shorter than         *)
(* MIN_JOIN are joined to the chunk before them in their group              *)
(***************************************************************************)
MIN_JOIN == 150

\* one of the words BAD_TOKENS removes from the end of a text
BadTail == W("iyu_tok", 2)

\* clean_tail on a normalised text: the trailing BAD_TOKENS words go
RECURSIVE clean_tail(_)
clean_tail(t) ==
    IF t # <<>> /\ t[Len(t)] = BadTail THEN clean_tail(SubSeq(t, 1, Len(t) - 1)) ELSE t

\* texts of chunks.jsonl: just below MIN_JOIN, exactly MIN_JOIN, exactly the
\* hard_max of clean_to_chunks_v2, one with a tail to clean, one that is
\* nothing but such a tail
MergeShapes ==
    { <<W("a", 149)>>, <<W("b", 150)>>, <<W("c", 1200)>>,
      <<W("d", 150), BadTail>>, <<BadTail>> }

MergeGroups == {"u1", "u2"}

\* the record clean_to_chunks_v2 wrote for the i-th text of the list, its
\* chunk_index counting the earlier texts of its group
FileRecord(g, i) ==
    [case_uid |-> g[i].grp, section_name |-> "sec",
     chunk_index |-> Cardinality({j \in 1..(i - 1) : g[j].grp = g[i].grp}),
     text |-> g[i].text, char_len |-> TLen(g[i].text)]

Reverse(seq) == [i \in 1..Len(seq) |-> seq[Len(seq) + 1 - i]]

\* load_chunks: clean every text, drop the records left without text
RECURSIVE load_chunks(_)
load_chunks(file) ==
    IF file = <<>> THEN <<>>
    ELSE LET obj == Head(file)
             text == clean_tail(obj.text)
         IN IF text # <<>>
            THEN <<[obj EXCEPT !.text = text, !.char_len = TLen(text)]>>
                     \o load_chunks(Tail(file))
            ELSE load_chunks(Tail(file))

\* the keys of grouped, in the order dict keeps them: first appearance
RECURSIVE group_keys(_, _)
group_keys(rs, keys) ==
    IF rs = <<>> THEN keys
    ELSE LET k == <<Head(rs).case_uid, Head(rs).section_name>> IN
         IF \E i \in 1..Len(keys) : keys[i] = k THEN group_keys(Tail(rs), keys)
         ELSE group_keys(Tail(rs), Append(keys, k))

\* lst.sort(key=chunk_index): stable, ascending
RECURSIVE ins_asc(_, _)
ins_asc(sorted, r) ==
    IF sorted = <<>> THEN <<r>>
    ELSE IF Head(sorted).chunk_index <= r.chunk_index
         THEN <<Head(sorted)>> \o ins_asc(Tail(sorted), r)
    ELSE <<r>> \o sorted

RECURSIVE sort_by_index(_, _)
sort_by_index(lst, acc) ==
    IF lst = <<>> THEN acc ELSE sort_by_index(Tail(lst), ins_asc(acc, Head(lst)))

\* a join loop that leaves every record as it is
keep_all(lst, buf) == buf \o lst

\* lines 44-49: a short record is joined to the last record of buf
RECURSIVE merge_group(_, _)
merge_group(lst, buf) ==
    IF lst = <<>> THEN buf
    ELSE LET r == Head(lst) IN
         IF buf # <<>> /\ TLen(r.text) < MIN_JOIN
         THEN LET joined == buf[Len(buf)].text \o r.text IN
              merge_group(Tail(lst),
                  [buf EXCEPT ![Len(buf)] =
                      [@ EXCEPT !.text = joined, !.char_len = TLen(joined)]])
         ELSE merge_group(Tail(lst), Append(buf, r))

\* lines 50-51
renumber(buf) == [i \in 1..Len(buf) |-> [buf[i] EXCEPT !.chunk_index = i - 1]]

\* merge_short
RECURSIVE merge_keys(_, _)
merge_keys(keys, rs) ==
    IF keys = <<>> THEN <<>>
    ELSE LET lst == SelectSeq(rs, LAMBDA r : <<r.case_uid, r.section_name>> = Head(keys))
         IN renumber(merge_group(sort_by_index(lst, <<>>), <<>>))
                \o merge_keys(Tail(keys), rs)

merge_short(rs) == merge_keys(group_keys(rs, <<>>), rs)

SmIdle == smFile = <<>> /\ smRows = <<>> /\ smOut = <<>> /\ smPc = "idle"

\* chunks.jsonl as clean_to_chunks_v2 wrote it, read forwards or backwards
SmInit ==
    /\ \E g \in SeqsUpTo([grp : MergeGroups, text : MergeShapes], MaxMerge) :
          \E backwards \in BOOLEAN :
             LET file == [i \in 1..Len(g) |-> FileRecord(g, i)]
             IN smFile = (IF backwards THEN Reverse(file) ELSE file)
    /\ smRows = <<>> /\ smOut = <<>> /\ smPc = "start"

\* main, line 56
SmLoad ==
    /\ smPc = "start"
    /\ smRows' = load_chunks(smFile)
    /\ smPc' = "loaded"
    /\ UNCHANGED <<smFile, smOut, notSm>>

\* main, lines 58-63
SmMerge ==
    /\ smPc = "loaded"
    /\ smOut' = merge_short(smRows)
    /\ smPc' = "done"
    /\ UNCHANGED <<smFile, smRows, notSm>>

(***************************************************************************)
(* precedents_pipeline.fix_meta.  A row of precedents is [case_no, full,    *)
(* court]: full is "empty" for a missing full_text or a crawl log, else the *)
(* case number CASE_NO_PAT finds in it (such a text names a court too);     *)
(* court is FALSE while the column is NULL.  Case numbers "1", "2", ... are  *)
(* the numeric ones, "K1", "K2" the regular ones.                           *)
(***************************************************************************)
NumericCaseNos == {"1", "2"}
RegularCaseNos == {"K1", "K2"}

\* the tables fix_meta may find: case_no is UNIQUE (line 4)
PrecedentTables ==
    { t \in SeqsUpTo([case_no : NumericCaseNos \cup RegularCaseNos,
                      full : {"empty"} \cup RegularCaseNos,
                      court : BOOLEAN], MaxPrec) :
        \A i, j \in 1..Len(t) : i < j => t[i].case_no # t[j].case_no }

\* lines 183-188: the rows with a NULL column or a numeric case_no
selected(tbl) ==
    { pid \in 1..Len(tbl) : ~tbl[pid].court \/ tbl[pid].case_no \in NumericCaseNos }

\* a loop body that writes the parsed case number without looking for it
fix_row_unchecked(tbl, pid) ==
    IF tbl[pid].full = "empty" THEN tbl
    ELSE [tbl EXCEPT ![pid] = [@ EXCEPT !.case_no = tbl[pid].full, !.court = TRUE]]

\* lines 192-224: the loop body for the row with id pid
fix_row(tbl, pid) ==
    IF tbl[pid].full = "empty" THEN tbl
    ELSE LET case_no == tbl[pid].full
             dup == \E j \in 1..Len(tbl) : j # pid /\ tbl[j].case_no = case_no
         IN [tbl EXCEPT ![pid] =
                [@ EXCEPT !.case_no = (IF dup THEN @ ELSE case_no), !.court = TRUE]]

FmIdle == precedents = <<>> /\ fmTodo = {} /\ fixed = 0 /\ fmPc = "idle"

FmInit ==
    /\ precedents \in PrecedentTables
    /\ fmTodo = {} /\ fixed = 0 /\ fmPc = "start"

\* lines 179-189: the SELECT and fetchall
FmSelect ==
    /\ fmPc = "start"
    /\ fmTodo' = selected(precedents)
    /\ fmPc' = "loop"
    /\ UNCHANGED <<precedents, fixed, notFm>>

\* lines 192-224 for the next fetched row; the SELECT has no ORDER BY
FmRow ==
    /\ fmPc = "loop"
    /\ \E pid \in fmTodo :
          /\ precedents' = fix_row(precedents, pid)
          /\ fixed' = (IF precedents[pid].full = "empty" THEN fixed ELSE fixed + 1)
          /\ fmTodo' = fmTodo \ {pid}
    /\ UNCHANGED <<fmPc, notFm>>

\* line 226
FmReturn ==
    /\ fmPc = "loop" /\ fmTodo = {}
    /\ fmPc' = "done"
    /\ UNCHANGED <<precedents, fmTodo, fixed, notFm>>

(***************************************************************************)
(* Specifications                                                          *)
(***************************************************************************)
\* make_chunks_from_text applied to one section text
ChunkInit == CkInit /\ LcIdle /\ CtcIdle /\ BldIdle /\ SrvIdle /\ DvIdle /\ PpIdle /\ RgIdle /\ ApIdle /\ SmIdle /\ FmIdle
ChunkNext == CkMakeChunks
SpecChunk == ChunkInit /\ [][ChunkNext]_vars

\* one run of law_chunker.main
LawMainInit == LcInit /\ CkIdle /\ CtcIdle /\ BldIdle /\ SrvIdle /\ DvIdle /\ PpIdle /\ RgIdle /\ ApIdle /\ SmIdle /\ FmIdle
LawMainNext == LcSkipAbsent \/ LcDropEmpty \/ LcSection \/ LcFinish
SpecLawMain == LawMainInit /\ [][LawMainNext]_vars

\* clean_to_chunks_v2.main for one (case_uid, section_name) group
CtcInitAll == CtcInit /\ CkIdle /\ LcIdle /\ BldIdle /\ SrvIdle /\ DvIdle /\ PpIdle /\ RgIdle /\ ApIdle /\ SmIdle /\ FmIdle
CtcNext == CtcChunkGroup
SpecCtc == CtcInitAll /\ [][CtcNext]_vars

\* index rebuilds running beside a booting, then serving, rag_server
IndexInit == BldInit /\ SrvInit /\ CkIdle /\ LcIdle /\ CtcIdle /\ DvIdle /\ PpIdle /\ RgIdle /\ ApIdle /\ SmIdle /\ FmIdle
IndexNext ==
    \/ BuildFetchEmbed \/ BuildSaveIds \/ BuildSaveMeta \/ BuildSaveIndex
    \/ SrvLoadIndex \/ SrvLoadIds \/ SrvLoadMeta \/ SrvLookup
SpecIndex == IndexInit /\ [][IndexNext]_vars

\* diversify_by_case applied to one ranked list
DiversifyInit == DvInit /\ CkIdle /\ LcIdle /\ CtcIdle /\ BldIdle /\ SrvIdle /\ PpIdle /\ RgIdle /\ ApIdle /\ SmIdle /\ FmIdle
DiversifyNext == DvDiversify
SpecDiversify == DiversifyInit /\ [][DiversifyNext]_vars

\* postprocess_answer applied to one generated text
PostInit == PpInit /\ CkIdle /\ LcIdle /\ CtcIdle /\ BldIdle /\ SrvIdle /\ DvIdle /\ RgIdle /\ ApIdle /\ SmIdle /\ FmIdle
PostNext == PpPostprocess
SpecPost == PostInit /\ [][PostNext]_vars

\* one request served by a booted rag_server
RagInit == RgInit /\ CkIdle /\ LcIdle /\ CtcIdle /\ BldIdle /\ DvIdle /\ PpIdle /\ ApIdle /\ SmIdle /\ FmIdle
RagNext ==
    \/ RagReceive
    \/ RagSearch
    \/ RagRerank
    \/ RagDiversify
    \/ RagPrompt
    \/ RagGenerate
    \/ RagGenerateFails
    \/ RagRespond
SpecRag == RagInit /\ [][RagNext]_vars

\* the handler runs to its return: every step it can take is taken, and the
\* provider call ends with an answer, an error status or the 120 s timeout
SpecRagLive == RagInit /\ [][RagNext]_vars /\ WF_vars(RagNext)

\* app.py from startup to one /rag request
AppInit ==
    ApInit /\ CkIdle /\ LcIdle /\ CtcIdle /\ BldIdle /\ SrvIdle /\ DvIdle /\ PpIdle /\ RgIdle /\ SmIdle /\ FmIdle
AppNext ==
    \/ AppEmbedOk
    \/ AppEmbedFails
    \/ AppServe
    \/ AppRag
SpecApp == AppInit /\ [][AppNext]_vars

\* make_chunks_from_text under the scaled policy
ScaledChunkInit ==
    ScaledInit /\ LcIdle /\ CtcIdle /\ BldIdle /\ SrvIdle /\ DvIdle /\ PpIdle /\ RgIdle /\ ApIdle /\ SmIdle /\ FmIdle
ScaledChunkNext == CkChunkScaled
SpecScaled == ScaledChunkInit /\ [][ScaledChunkNext]_vars

\* rerank_if_enabled applied to one candidate list
RerankInit == RkInit /\ CkIdle /\ LcIdle /\ CtcIdle /\ BldIdle /\ DvIdle /\ PpIdle /\ ApIdle /\ SmIdle /\ FmIdle
RerankNext == RkRerank
SpecRerank == RerankInit /\ [][RerankNext]_vars

\* one run of short_merge.main
MergeInit ==
    SmInit /\ CkIdle /\ LcIdle /\ CtcIdle /\ BldIdle /\ SrvIdle /\ DvIdle /\ PpIdle /\ RgIdle
        /\ ApIdle /\ FmIdle
MergeNext == SmLoad \/ SmMerge
SpecMerge == MergeInit /\ [][MergeNext]_vars

\* one run of fix_meta inside the transaction of main
FixMetaInit ==
    FmInit /\ CkIdle /\ LcIdle /\ CtcIdle /\ BldIdle /\ SrvIdle /\ DvIdle /\ PpIdle /\ RgIdle
        /\ ApIdle /\ SmIdle
FixMetaNext == FmSelect \/ FmRow \/ FmReturn
SpecFixMeta == FixMetaInit /\ [][FixMetaNext]_vars

\* either chunker run twice over the same input
RerunInit ==
    /\ \/ CkInit /\ CtcIdle
       \/ CkIdle /\ CtcInit
    /\ LcIdle /\ BldIdle /\ SrvIdle /\ DvIdle /\ PpIdle /\ RgIdle /\ ApIdle /\ SmIdle /\ FmIdle
RerunNext ==
    \/ CkMakeChunks
    \/ CkMakeChunksAgain
    \/ CtcChunkGroup
    \/ CtcChunkGroupAgain
SpecRerun == RerunInit /\ [][RerunNext]_vars

(***************************************************************************)
(* Claims                                                                  *)
(***************************************************************************)
\* C1: every chunk returned by make_chunks_from_text has length <= HARD_MAX,
\* also after a force-append and after the trailing-short-chunk merge.
C1_AllChunksWithinHardMax ==
    ckPc = "done" => \A i \in 1..Len(ckOut) : ckOut[i].chars <= HARD_MAX

\* C3: every chunk returned by make_chunks_from_text except the last of the
\* section has length >= MIN_CHARS.
C3_NonFinalChunksAtLeastMin ==
    ckPc = "done" => \A i \in 1..(Len(ckOut) - 1) : ckOut[i].chars >= MIN_CHARS

\* C2: every chunk returned by chunk_by_length has length <= hard_max, also
\* for a space-free run longer than hard_max and after a force-append.
C2_CtcChunksWithinHardMax ==
    ctcPc = "done" => \A i \in 1..Len(ctcOut) : ctcOut[i].char_len <= hard_max

\* the chunk_index values, in write order, of the records of one group
IndexesOf(out, IsGroup(_)) ==
    LET g == SelectSeq(out, IsGroup) IN [i \in 1..Len(g) |-> g[i].chunk_index]

ZeroBased(ix) == \A i \in 1..Len(ix) : ix[i] = i - 1

\* C4: in the records one pipeline run persists, the chunk_index values of
\* one (case identifier, section name) group are exactly 0..n-1 in order.
C4_ChunkIndexContiguous ==
    /\ lcPc = "done" =>
          \A u \in 1..Len(lcData) : \A s \in 1..NSec :
             LET InGroup(r) == r.uid = u /\ r.section = Sections[s]
             IN ZeroBased(IndexesOf(lcOut, InGroup))
    /\ ctcPc = "done" =>
          LET InGroup(r) == r.case_uid = "uid" /\ r.section_name = "sec"
          IN ZeroBased(IndexesOf(ctcOut, InGroup))

OneGeneration == index.gen = ids.gen /\ ids.gen = meta.gen

\* C5: index, id array and metadata are one-to-one aligned: equally many
\* entries, and for every index row i the record found through ids[i] is
\* the record of the chunk whose embedding the build stored at row i.
C5_IndexIdsMetaAligned ==
    (srvPc = "up" /\ OneGeneration) =>
        /\ Len(ids.data) = Len(meta.data)
        /\ Len(ids.data) = Len(index.data)
        /\ \A ix \in 0..(Len(index.data) - 1) :
              LET m == meta_lookup(meta.data, ids.data, ix)
              IN m # IndexError /\ m.id = index.data[ix + 1].emb_of

\* C6: a server that loads the artifacts while a rebuild runs sees index,
\* ids and metadata of one and the same generation.
C6_OneGenerationLoaded == srvPc = "up" => OneGeneration

CaseAt(seq, i) == seq[i].case_no

\* the first candidate of cands that carries the case number cn
FirstOfCase(cs, cn) ==
    cs[CHOOSE i \in 1..Len(cs) :
             /\ cs[i].case_no = cn
             /\ \A j \in 1..(i - 1) : cs[j].case_no # cn]

\* C7: diversify_by_case returns at most one candidate per case identifier,
\* none whose case identifier is empty or missing, and for each case the
\* candidate that comes first in the ranked input.
C7_OnePerCaseFirstKept ==
    dvPc = "done" =>
        /\ \A i, j \in 1..Len(dvPicked) :
              i # j => CaseAt(dvPicked, i) # CaseAt(dvPicked, j)
        /\ \A i \in 1..Len(dvPicked) :
              /\ CaseAt(dvPicked, i) \notin {"", "None"}
              /\ \E k \in 1..Len(dvCands) : dvCands[k].case_no = CaseAt(dvPicked, i)
              /\ dvPicked[i] = FirstOfCase(dvCands, CaseAt(dvPicked, i))

\* C7 witness: a ranked list with two chunks of one case, the later one not
\* the first, and that case selected
C7_Witness ==
    /\ dvPc = "done"
    /\ \E i, j \in 1..Len(dvCands) :
          /\ i < j
          /\ dvCands[i].case_no = dvCands[j].case_no
          /\ dvCands[i] # dvCands[j]
          /\ \E k \in 1..Len(dvPicked) : dvPicked[k] = dvCands[i]

\* the distinct non-empty case identifiers of a list
CasesOf(cs) == {cs[i].case_no : i \in 1..Len(cs)} \ {"", "None"}

\* sub is obtained from seq by deleting elements
RECURSIVE IsSubseq(_, _)
IsSubseq(sub, seq) ==
    IF sub = <<>> THEN TRUE
    ELSE IF seq = <<>> THEN FALSE
    ELSE IF Head(sub) = Head(seq) THEN IsSubseq(Tail(sub), Tail(seq))
    ELSE IsSubseq(sub, Tail(seq))

\* C8: for K >= 0 diversify_by_case returns exactly min(K, d) candidates, d
\* the number of distinct non-empty case identifiers of the input, and the
\* result is a subsequence of the input.
C8_ExactlyMinKd ==
    (dvPc = "done" /\ dvLimit >= 0) =>
        /\ Len(dvPicked) = Min(dvLimit, Cardinality(CasesOf(dvCands)))
        /\ IsSubseq(dvPicked, dvCands)

\* C10: with a non-empty SelectionSet the returned text ends with the
\* reference line listing the unique case identifiers of the SelectionSet in
\* selection order, whatever the generated text was.
C10_EndsWithReferenceLine ==
    (ppPc = "done" /\ ppPicked # <<>>) =>
        /\ ppAns # <<>>
        /\ ppAns[Len(ppAns)] = Ref(uniq_cases(ppPicked, <<>>))

\* the hits of the last search that name a vector
RealHits == SelectSeq(hits, LAMBDA h : h.ix >= 0)

\* C9: faiss_search returns one candidate per hit, its score the raw
\* similarity times the weight of its section (1.0 outside the table), and
\* the list is sorted by that score, highest first.
C9_WeightedScoreSortedDesc ==
    rgPc = "searched" =>
        /\ Len(cands) = Len(RealHits)
        /\ \A i \in 1..Len(RealHits) :
              LET m == meta_lookup(meta.data, ids.data, RealHits[i].ix)
              IN \E j \in 1..Len(cands) :
                    /\ cands[j].id = m.id
                    /\ cands[j].score = RealHits[i].s * weight(section_of(m))
        /\ \A i, j \in 1..Len(cands) : i < j => cands[i].score >= cands[j].score

\* C9 witness: raw 0.50 in a section of weight 2.0 is ranked before raw
\* 0.90 in a section of weight 0.8
C9_Witness ==
    /\ rgPc = "searched"
    /\ \E i, j \in 1..Len(cands) :
          /\ i < j
          /\ section_of(cands[i]) = "iyu" /\ cands[i].score = 50 * 20
          /\ section_of(cands[j]) = "jumun" /\ cands[j].score = 90 * 8

\* C11: postprocess_answer is idempotent for a fixed SelectionSet: applying
\* it to its own result changes nothing.
C11_Idempotent ==
    ppPc = "done" => postprocess_answer(ppAns, ppPicked) = ppAns

\* the chunks the chunker has produced for the sections before position pos,
\* in production order, each with the row it belongs to
RECURSIVE ProducedBefore(_)
ProducedBefore(pos) ==
    IF pos <= 1 THEN <<>>
    ELSE LET d == lcData[RowOf(pos - 1)][SecOf(pos - 1)]
             made == IF d.kind = "text"
                     THEN make_chunks_from_text(Sections[SecOf(pos - 1)], d.parts)
                     ELSE <<>>
         IN ProducedBefore(pos - 1) \o
            [i \in 1..Len(made) |->
                [uid |-> RowOf(pos - 1), section |-> made[i].section,
                 chunk_index |-> made[i].chunk_index, text |-> made[i].text]]

\* the produced chunks whose text no earlier produced chunk carries
FirstOccurrences(prod) ==
    LET keep == {i \in 1..Len(prod) : \A j \in 1..(i - 1) : prod[j].text # prod[i].text}
        F[i \in 0..Len(prod)] ==
            IF i = 0 THEN <<>>
            ELSE IF i \in keep THEN Append(F[i - 1], prod[i]) ELSE F[i - 1]
    IN F[Len(prod)]

\* C12: in a run of law_chunker.main a chunk whose hash was seen before is
\* not written and counted once as a duplicate: no two written records share
\* a hash, the written records are the first occurrences in production
\* order, and written + duplicates = chunks produced.
C12_DedupKeepsFirst ==
    LET prod == ProducedBefore(lcPos)
        first == FirstOccurrences(prod)
    IN lcPc \in {"run", "done"} =>
        /\ \A i, j \in 1..Len(lcOut) : i # j => lcOut[i].sha1 # lcOut[j].sha1
        /\ Len(lcOut) = Len(first)
        /\ \A i \in 1..Len(lcOut) :
              /\ lcOut[i].uid = first[i].uid
              /\ lcOut[i].section = first[i].section
              /\ lcOut[i].chunk_index = first[i].chunk_index
              /\ lcOut[i].text = first[i].text
        /\ Len(lcOut) + deduped = Len(prod)

\* C12 witness: a finished run that wrote chunks and skipped a duplicate
C12_Witness ==
    /\ lcPc = "done"
    /\ deduped >= 1
    /\ Len(lcOut) >= 2

\* C13: a request whose question is empty or whose top_k is not positive is
\* answered with a validation error (status 400) and no embedding, search or
\* generation call is made for it.
C13_InvalidRejectedBeforeCalls ==
    (rgPc # "idle" /\ (question = "" \/ top_k <= 0)) =>
        /\ calls = <<>>
        /\ rgPc = "responded"
        /\ resp # <<>> /\ resp[1].status = 400

\* the request went through retrieval and retrieval returned no candidate
EmptyRetrieval ==
    /\ rgPc \in {"searched", "ranked", "picked", "prompted", "generated", "responded"}
    /\ \E i \in 1..Len(calls) : calls[i] = "search"
    /\ cands = <<>>
    /\ (resp # <<>> => get(resp[1], "error") # "IndexError")

\* C14: when retrieval yields no candidates the SelectionSet is empty and
\* either no prompt is sent to the generation provider or the prompt sent
\* states that no grounding material was found.
\* The same holds for app.rag_api when no chunk data is loaded: the request
\* is not answered with an error.
C14_EmptyResultGraceful ==
    /\ EmptyRetrieval =>
          /\ picked = <<>>
          /\ \/ \A i \in 1..Len(calls) : calls[i] # "ollama"
             \/ prompt # <<>> /\ prompt[1].no_grounding_stated
    /\ (apPc = "serving" /\ df = <<>> /\ apResp # <<>>) => apResp[1].ok

\* number of calls made to the generation provider
OllamaCalls == Cardinality({i \in 1..Len(calls) : calls[i] = "ollama"})

\* C15: every request that passed validation ends with a response; the
\* generation provider is called at most once, and when it times out or
\* returns an error the handler goes straight to a failure response
\* (ok = false) that carries the cause.
C15_TerminatesWithResponse ==
    /\ [](OllamaCalls <= 1)
    /\ [][(rgPc = "prompted" /\ rgPc' = "responded") =>
             /\ resp' # <<>> /\ ~resp'[1].ok
             /\ resp'[1].error \in ProviderFailures
             /\ calls' = Append(calls, "ollama")]_vars
    /\ [](rgPc = "responded" => Len(resp) = 1)
    /\ (rgPc = "received") ~> (rgPc = "responded")

\* C15 witness: the provider was called once, failed, and the request was
\* answered with the failure
C15_Witness ==
    /\ rgPc = "responded"
    /\ OllamaCalls = 1
    /\ resp # <<>> /\ ~resp[1].ok /\ resp[1].error \in ProviderFailures

\* the startup loop stores one vector per chunk, in chunk order
VectorPerChunk ==
    /\ Len(DOC_EMB) <= Len(df)
    /\ (apPc = "serving" => Len(DOC_EMB) = Len(df))
    /\ \A i \in 1..Len(DOC_EMB) : DOC_EMB[i].zero \/ DOC_EMB[i].of = df[i]

\* C16: when the embedding provider fails for single chunks at startup, a
\* zero vector of the dimension the provider's vectors have stands in the
\* failed chunk's position; after the loop there are as many vectors as
\* chunks and vector i is the vector of chunk i, whichever chunks failed.
C16_ZeroVectorOfExpectedDim ==
    /\ VectorPerChunk
    /\ \A i \in 1..Len(DOC_EMB) : DOC_EMB[i].dim = emb_dim

C18_ScenarioTwoChunks ==
    (ckPc = "done" /\ ckParts = <<ShortOne, BitLonger, Tiny>>) =>
        /\ Len(ckOut) = 2
        /\ ckOut[2].text = BitLonger \o Tiny

\* the words of a sequence of texts, in order
RECURSIVE Flatten(_)
Flatten(texts) == IF texts = <<>> THEN <<>> ELSE Head(texts) \o Flatten(Tail(texts))

\* a text with the pieces of a cut word put together again
RECURSIVE Glue(_)
Glue(t) ==
    IF Len(t) < 2 THEN t
    ELSE LET a == t[1]
             b == t[2]
         IN IF a.c = b.c /\ b.off = a.off + a.n
            THEN Glue(<<[a EXCEPT !.n = a.n + b.n]>> \o SubSeq(t, 3, Len(t)))
            ELSE <<a>> \o Glue(Tail(t))

\* C19: the chunks of make_chunks_from_text, read one after the other, are
\* the sentences of the text in their order (an over-long sentence as its
\* hard-cut pieces): no sentence is missing, none occurs twice, none stands
\* before text that preceded it.
C19_ChunksPartitionSentences ==
    ckPc = "done" =>
        Glue(Flatten([i \in 1..Len(ckOut) |-> ckOut[i].text])) = Flatten(ckParts)

\* the place, among the hits with a row, of the hit a candidate was made from
HitPos(c) ==
    CHOOSE k \in 1..Len(RealHits) :
        meta_lookup(meta.data, ids.data, RealHits[k].ix).id = c.id

\* C20: of two candidates faiss_search returns with the same weighted score,
\* the one with the higher raw similarity comes first, and two that agree in
\* the raw similarity too stand in the order the similarity search gave them.
C20_TiesByRawThenArrival ==
    rgPc = "searched" =>
        \A i, j \in 1..Len(cands) :
            (i < j /\ cands[i].score = cands[j].score) =>
                /\ RealHits[HitPos(cands[i])].s >= RealHits[HitPos(cands[j])].s
                /\ HitPos(cands[i]) < HitPos(cands[j])

\* C20 witness: raw 0.90 in a section of weight 0.8 and raw 0.36 in a section
\* of weight 2.0 tie at 0.72
C20_Witness ==
    /\ rgPc = "searched"
    /\ \E i, j \in 1..Len(cands) :
          /\ i < j /\ cands[i].score = cands[j].score
          /\ RealHits[HitPos(cands[i])].s > RealHits[HitPos(cands[j])].s

\* C21: with the reranker enabled, every candidate rerank_if_enabled returns
\* has a non-empty text (also when no candidate has one), the result is
\* sorted by the scorer's rerank score, highest first, and it has at most
\* as many elements as the top_k it was called with.
C21_RerankedHaveTextSorted ==
    (rgPc = "ranked" /\ use_reranker) =>
        /\ \A i \in 1..Len(ranked) : or_empty(get(ranked[i], "text")) # ""
        /\ \A i, j \in 1..Len(ranked) :
              i < j => ranked[i].rerank_score >= ranked[j].rerank_score
        /\ Len(ranked) <= Max(top_k * 2, MIN_RERANK_POOL)

\* C22: with the reranker disabled, rerank_if_enabled returns the first
\* top_k candidates of its input, in their order and unchanged, and the
\* external scorer is not called.
C22_DisabledPassThrough ==
    (rgPc = "rerank_out" /\ ~use_reranker /\ top_k >= 0) =>
        /\ ranked = SubSeq(cands, 1, Min(top_k, Len(cands)))
        /\ calls = <<>>

C22_Witness ==
    rgPc = "rerank_out" /\ ~use_reranker /\ top_k = 2 /\ Len(cands) = 3 /\ Len(ranked) = 2

\* the distinct non-empty case identifiers of a candidate list
PoolCases(cs) == {cs[i].case_no : i \in {n \in 1..Len(cs) : ~no_case(cs[n])}}

\* C23: when the candidates the similarity search returned for a request
\* with top_k >= 1 hold at least top_k distinct non-empty case identifiers,
\* exactly top_k candidates are selected and the response lists exactly
\* top_k sources.
C23_EnoughCasesGiveTopK ==
    (rgPc \in {"picked", "prompted", "generated", "responded"} /\ top_k >= 1
        /\ "search" \in {calls[i] : i \in 1..Len(calls)}
        /\ (resp # <<>> => get(resp[1], "error") # "IndexError")
        /\ Cardinality(PoolCases(cands)) >= top_k) =>
        /\ Len(picked) = top_k
        /\ (resp # <<>> /\ resp[1].ok) => Len(resp[1].sources) = top_k

\* C24: the prompt holds one context entry "[i] text" per selected
\* candidate, numbered from 1 in selection order, and the sources of the
\* response have the same length and order: citation i of the prompt and
\* sources[i-1] are the same selected candidate.
C24_CitationsMatchSources ==
    /\ prompt # <<>> =>
          /\ Len(prompt[1].context) = Len(picked)
          /\ \A i \in 1..Len(picked) :
                /\ prompt[1].context[i].n = i
                /\ prompt[1].context[i].text = strip(or_empty(get(picked[i], "text")))
    /\ (rgPc = "responded" /\ resp[1].ok) =>
          /\ Len(resp[1].sources) = Len(prompt[1].context)
          /\ \A i \in 1..Len(picked) :
                /\ resp[1].sources[i].case_no = get(picked[i], "case_no")
                /\ resp[1].sources[i].section_name = get(picked[i], "section_name")
                /\ resp[1].sources[i].chunk_index = get(picked[i], "chunk_index")
                /\ resp[1].sources[i].score = picked[i].score

C24_Witness ==
    /\ rgPc = "responded" /\ resp[1].ok /\ Len(resp[1].sources) = 2
    /\ resp[1].sources[1].case_no # resp[1].sources[2].case_no
    /\ prompt[1].context[1].text # prompt[1].context[2].text

\* C25: when every embedding call of the batch fails, the build stops with a
\* fatal error: it never completes with placeholder vectors only.
C25_AllFailedIsFatal ==
    (apPc = "serving" /\ Len(df) > 0) => \E i \in 1..Len(DOC_EMB) : ~DOC_EMB[i].zero

\* the chunk list of the last call as it stood before the post-pass, and the
\* texts returned
BeforePostPass == chunk_loop(split_sentences(ckParts), <<>>, <<>>, Policy)
ReturnedTexts == [i \in 1..Len(ckOut) |-> ckOut[i].text]

\* C26: the post-pass merges a short tail only: with two or more chunks, the
\* last shorter than 200 characters, the result has one chunk fewer and ends
\* with the previous chunk, a space and the former last chunk; otherwise the
\* list is unchanged; the chunks before the last two are never touched.
C26_PostPassMergesShortTail ==
    ckPc = "done" =>
        LET pre == BeforePostPass
            n == Len(pre)
        IN IF n >= 2 /\ TLen(pre[n]) < TAIL_MIN
           THEN /\ Len(ReturnedTexts) = n - 1
                /\ ReturnedTexts[n - 1] = pre[n - 1] \o pre[n]
                /\ ckOut[n - 1].chars = TLen(pre[n - 1]) + 1 + TLen(pre[n])
                /\ \A i \in 1..(n - 2) : ReturnedTexts[i] = pre[i]
           ELSE ReturnedTexts = pre

C26_Witness ==
    /\ ckPc = "done" /\ Len(BeforePostPass) = 3 /\ Len(ckOut) = 2
    /\ TLen(BeforePostPass[3]) < TAIL_MIN

\* sents are the fragments of parts grouped, in order, into runs of whole
\* consecutive fragments
RECURSIVE IsGrouping(_, _)
IsGrouping(parts, sents) ==
    IF sents = <<>> THEN parts = <<>>
    ELSE \E k \in 1..Len(parts) :
            /\ Flatten(SubSeq(parts, 1, k)) = Head(sents)
            /\ IsGrouping(SubSeq(parts, k + 1, Len(parts)), Tail(sents))

\* C27: every sentence split_sentences returns, except possibly the last, is
\* at least 60 characters long; the fragments keep their order and each
\* fragment lies in exactly one returned sentence.
C27_NoShortSentenceButLast ==
    ckPc = "done" =>
        LET sents == split_sentences(ckParts) IN
        /\ \A i \in 1..(Len(sents) - 1) : TLen(sents[i]) >= SENT_MIN
        /\ IsGrouping(ckParts, sents)

C27_Witness ==
    /\ ckPc = "done" /\ Len(ckParts) = 3 /\ TLen(ckParts[1]) < SENT_MIN
    /\ Len(split_sentences(ckParts)) = 2

\* C28: when every chunk read is at most hard_max characters long, every
\* chunk merge_short returns is at most hard_max characters long, however
\* many short chunks follow a chunk of their group.
C28_MergeKeepsHardMax ==
    (smPc = "done" /\ \A i \in 1..Len(smRows) : TLen(smRows[i].text) <= hard_max) =>
        \A i \in 1..Len(smOut) : TLen(smOut[i].text) <= hard_max

\* the records of one group, in the order of a list
OfGroup(rs, u) == SelectSeq(rs, LAMBDA r : r.case_uid = u)

\* C29: after merge_short the chunk_index values of every group are 0..n-1,
\* the texts stand in the order of the original indices, char_len is the
\* length of the text, and only the first record of a group may be shorter
\* than MIN_JOIN.
C29_MergedGroupsWellFormed ==
    smPc = "done" =>
        \A u \in MergeGroups :
            LET o == OfGroup(smOut, u)
                orig == sort_by_index(OfGroup(smRows, u), <<>>)
            IN /\ \A i \in 1..Len(o) : o[i].chunk_index = i - 1
               /\ Flatten([i \in 1..Len(o) |-> o[i].text])
                      = Flatten([i \in 1..Len(orig) |-> orig[i].text])
               /\ \A i \in 1..Len(o) : o[i].char_len = TLen(o[i].text)
               /\ \A i \in 2..Len(o) : TLen(o[i].text) >= MIN_JOIN

\* C29 witness: the three chunks of one group read backwards, a short one
\* joined to the chunk before it
C29_Witness ==
    /\ smPc = "done" /\ Len(smFile) = 3 /\ Len(smRows) = 3 /\ Len(smOut) = 2
    /\ smRows[1].chunk_index > smRows[2].chunk_index
    /\ smOut[1].case_uid = smOut[2].case_uid

\* C30: fix_meta never makes two rows hold the same case number: the case
\* number parsed from a row's text is written only when no other row holds
\* it, also when two rows of one run parse to the same number; a row whose
\* case_no is left alone still gets its court filled in.
C30_CaseNoStaysUnique ==
    /\ \A i, j \in 1..Len(precedents) :
          i < j => precedents[i].case_no # precedents[j].case_no
    /\ fmPc = "done" =>
          \A i \in 1..Len(precedents) : precedents[i].full # "empty" => precedents[i].court

\* C30 witness: two rows whose texts carry the same case number; one of them
\* holds it, the other kept its numeric one, both have their court
C30_Witness ==
    /\ fmPc = "done" /\ fixed = 2
    /\ \E i, j \in 1..Len(precedents) :
          /\ i # j
          /\ precedents[i].full = precedents[j].full
          /\ precedents[i].case_no = precedents[i].full
          /\ precedents[j].case_no \in NumericCaseNos
          /\ precedents[i].court /\ precedents[j].court

====
